---- MODULE Spec2Model ----
(***************************************************************************)
(* Library manager: the Express router of backend/routes/books.js over the *)
(* MySQL table of database_setup.sql, and the browser client of            *)
(* frontend/js/script.js.                                                  *)
(*                                                                         *)
(* Storage is MySQL in its default (strict) SQL mode, reached through      *)
(* mysql2's query(): a statement is one atomic step, a handler is the      *)
(* sequence of its statements, and other handlers' statements may run      *)
(* between two awaits of one handler.                                      *)
(***************************************************************************)
EXTENDS Integers, Sequences, FiniteSets, Bags, TLC

VARIABLES
    table,          \* the rows of the books table
    autoInc,        \* the table's AUTO_INCREMENT counter
    handlers,       \* the router's handlers suspended at their second db.query
    resp,           \* the response the router is sending
    deleted,        \* ids for which DELETE /:id has answered 200
    books,          \* script.js: `books`, the last list fetched
    filteredBooks,  \* script.js: `filteredBooks`, the books displayed
    searchInput,    \* the value of the search field
    filterStatus,   \* the value of the status dropdown
    booksList,      \* booksList.innerHTML
    flows           \* the client's async functions suspended at an await

serverVars == <<table, autoInc, handlers, resp, deleted>>

clientVars ==
    <<books, filteredBooks, searchInput, filterStatus, booksList, flows>>

vars == <<serverVars, clientVars>>

(***************************************************************************)
(* Bounds of the model.                                                    *)
(***************************************************************************)
MaxId == 2          \* AUTO_INCREMENT values handed out
MaxHandlers == 1    \* handlers suspended at once, any requests
MaxUpdates == 2     \* handlers suspended at once, updates of stored rows
MaxStatsRows == 3   \* rows of the tables the statistics are taken over
MaxBooks == 2       \* books in a list the client is answered
MaxFlows == 1       \* client requests in flight at once
MaxFetches == 2     \* client requests in flight at once, the router answering

(***************************************************************************)
(* JavaScript / JSON values.  Text is a sequence of one-character strings. *)
(***************************************************************************)
Undefined == [k |-> "undefined"]
Null == [k |-> "null"]
Str(s) == [k |-> "str", v |-> s]
Num(n) == [k |-> "num", v |-> n]

TruthyUnlessNullish(x) == x.k # "undefined" /\ x.k # "null"

\* JavaScript truthiness, as used by `!title || !author`.
Truthy(x) ==
    CASE x.k = "undefined" -> FALSE
      [] x.k = "null" -> FALSE
      [] x.k = "str" -> x.v # <<>>
      [] x.k = "num" -> x.v # 0
      [] OTHER -> TRUE

\* sqlstring's escape of a placeholder value: undefined and null become NULL.
SqlParam(x) == IF x.k = "undefined" THEN Null ELSE x

MutableColumns ==
    {"title", "author", "isbn", "genre", "year_published", "status", "rating", "notes"}

StatusRead == Str(<<"r", "e", "a", "d">>)
StatusReading == Str(<<"r", "e", "a", "d", "i", "n", "g">>)
StatusToRead == Str(<<"t", "o", "-", "r", "e", "a", "d">>)
StatusEnum == {StatusRead, StatusReading, StatusToRead}

\* The values bound to the eight placeholders of INSERT and UPDATE.
ColumnValues(body) == [c \in MutableColumns |-> SqlParam(body[c])]

RatingInRange(r) == r.k = "num" /\ r.v >= 1 /\ r.v <= 5

IsbnFreeNoIndex(isbn, others) == TRUE

\* isbn VARCHAR(20) UNIQUE: no other row holds this (non-NULL) isbn.
IsbnFree(isbn, others) == \A r \in others : r.isbn # isbn

\* The column constraints of CREATE TABLE books, for a row with the values
\* `vals` next to the rows `others`: the error the engine raises, or "ok".
ConstraintError(vals, others) ==
    CASE vals.title = Null \/ vals.author = Null -> "Column cannot be null"
      [] vals.status # Null /\ vals.status \notin StatusEnum -> "Data truncated"
      [] vals.rating # Null /\ ~RatingInRange(vals.rating) -> "Check constraint violated"
      [] vals.isbn # Null /\ ~IsbnFree(vals.isbn, others) -> "Duplicate entry"
      [] OTHER -> "ok"

Row(id, vals, created) ==
    [id |-> id, title |-> vals.title, author |-> vals.author, isbn |-> vals.isbn,
     genre |-> vals.genre, year_published |-> vals.year_published,
     status |-> vals.status, rating |-> vals.rating, notes |-> vals.notes,
     created_at |-> created]

RowValues(r) == [c \in MutableColumns |-> r[c]]

\* SELECT * FROM books WHERE id = ?
SelectById(rows, id) == {r \in rows : r.id = id}

NextInsertIdReused(rows, counter) ==
    IF rows = {} THEN 1
    ELSE (CHOOSE m \in {r.id : r \in rows} : \A r \in rows : r.id <= m) + 1

\* id INT AUTO_INCREMENT PRIMARY KEY: the id of the next inserted row.
NextInsertId(rows, counter) == counter

\* DEFAULT CURRENT_TIMESTAMP, to the second: the second of the newest row, or
\* a later one.  Only the order of created_at values is observable (in the
\* ORDER BY of the list), so seconds are counted from the first insert.
CurrentTimestamps(rows) ==
    IF rows = {} THEN {0}
    ELSE LET newest == CHOOSE t \in {r.created_at : r \in rows} :
                           \A r \in rows : r.created_at <= t
         IN {newest, newest + 1}

UpdateRowsNoWhere(rows, id, vals) ==
    {Row(r.id, vals, r.created_at) : r \in rows}

UpdateRowsKeepingTitle(rows, id, vals) ==
    {IF r.id = id THEN Row(r.id, [vals EXCEPT !.title = r.title], r.created_at) ELSE r :
        r \in rows}

\* UPDATE books SET ... WHERE id = ?: the table afterwards.
UpdateRows(rows, id, vals) ==
    {IF r.id = id THEN Row(r.id, vals, r.created_at) ELSE r : r \in rows}

\* The error of that UPDATE: only a row it writes is checked.
UpdateError(rows, id, vals) ==
    IF SelectById(rows, id) = {} THEN "ok"
    ELSE ConstraintError(vals, rows \ SelectById(rows, id))

\* result.affectedRows of UPDATE or DELETE ... WHERE id = ? (the rows matched).
AffectedRows(rows, id) == Cardinality(SelectById(rows, id))

\* DELETE FROM books WHERE id = ?: the table afterwards.
DeleteRows(rows, id) == rows \ SelectById(rows, id)

\* SELECT * FROM books ORDER BY created_at DESC: every order the engine may
\* return (rows of the same second come in either order).
OrderedByCreatedDesc(rows) ==
    {s \in [1..Cardinality(rows) -> rows] :
        /\ \A i, j \in 1..Cardinality(rows) : i # j => s[i] # s[j]
        /\ \A i, j \in 1..Cardinality(rows) :
               i < j => s[i].created_at >= s[j].created_at}

\* The non-NULL ratings, which are all AVG(rating) reads.
RatedRows(rows) == {r \in rows : r.rating # Null}

RECURSIVE SumRatings(_)
SumRatings(rows) ==
    IF rows = {} THEN 0
    ELSE LET r == CHOOSE x \in rows : TRUE
         IN r.rating.v + SumRatings(rows \ {r})

\* n / d as an exact-value division rounds it: half away from zero.
RoundedQuotient(n, d) == (2 * n + d) \div (2 * d)

\* A DECIMAL of four fractional digits, which is what AVG of an INT column is.
Decimal4(unscaled) == [k |-> "decimal", unscaled |-> unscaled, scale |-> 4]

AvgRatingOverAllRows(rows) ==
    IF rows = {} THEN Null
    ELSE Decimal4(RoundedQuotient(SumRatings(RatedRows(rows)) * 10^4, Cardinality(rows)))

\* AVG(rating): NULL when no row has a rating.
AvgRating(rows) ==
    IF RatedRows(rows) = {} THEN Null
    ELSE Decimal4(RoundedQuotient(SumRatings(RatedRows(rows)) * 10^4,
                                  Cardinality(RatedRows(rows))))

\* COUNT(CASE WHEN status = ? THEN 1 END)
CountStatus(rows, status) == Cardinality({r \in rows : r.status = status})

\* The one row of the statistics SELECT.
StatsRow(rows) ==
    [k |-> "stats",
     total_books |-> Cardinality(rows),
     books_read |-> CountStatus(rows, StatusRead),
     books_reading |-> CountStatus(rows, StatusReading),
     books_to_read |-> CountStatus(rows, StatusToRead),
     average_rating |-> AvgRating(rows)]

(***************************************************************************)
(* Responses.                                                              *)
(***************************************************************************)
ErrorJson(message) == [k |-> "error", error |-> message]
MessageJson == [k |-> "message"]
BookJson(r) == [k |-> "book", row |-> r]
ArrayJson(s) == [k |-> "array", items |-> s]

\* rows[0] of a SELECT ... WHERE id = ?: the row, or undefined.
FirstRow(rows) == IF rows = {} THEN Undefined ELSE BookJson(CHOOSE r \in rows : TRUE)

Response(op, id, status, body, queries) ==
    [op |-> op, id |-> id, status |-> status, body |-> body, queries |-> queries]

NoResponse == Response("none", 0, 0, Undefined, 0)

\* A handler suspended at the await of its second query: the id it selects
\* and the fields it has destructured from req.body.
Suspended(pc, id, body) == [pc |-> pc, id |-> id, body |-> body]

Ids == 1..MaxId

(***************************************************************************)
(* Request bodies.                                                         *)
(***************************************************************************)
TextA == Str(<<"A">>)
TextB == Str(<<"B">>)
Isbn9 == Str(<<"9">>)
BadStatus == Str(<<"<", "b", ">">>)

Body(t, a, i, g, y, s, r, n) ==
    [title |-> t, author |-> a, isbn |-> i, genre |-> g, year_published |-> y,
     status |-> s, rating |-> r, notes |-> n]

\* Bodies carrying title and author only, each present, missing, null or empty.
RequiredOnlyBodies ==
    {Body(t, TextB, Undefined, Undefined, Undefined, Undefined, Undefined, Undefined) :
        t \in {TextA, Undefined, Null, Str(<<>>)}}
    \cup
    {Body(TextA, a, Undefined, Undefined, Undefined, Undefined, Undefined, Undefined) :
        a \in {Undefined, Null, Str(<<>>)}}

\* Bodies with every field set, some of them against the column constraints.
FullBodies ==
    {Body(TextA, TextB, Isbn9, Null, Null, s, r, Null) :
        s \in {StatusRead, BadStatus},
        r \in {Num(5), Num(6)}}

Bodies == RequiredOnlyBodies \cup FullBodies

(***************************************************************************)
(* The client's pure functions (script.js).                                *)
(***************************************************************************)
Lower(c) ==
    CASE c = "A" -> "a"
      [] c = "B" -> "b"
      [] OTHER -> c

\* String.prototype.toLowerCase
ToLowerCase(s) == [i \in 1..Len(s) |-> Lower(s[i])]

\* String.prototype.includes
Includes(hay, needle) ==
    \E i \in 0..(Len(hay) - Len(needle)) : SubSeq(hay, i + 1, i + Len(needle)) = needle

\* The test of the filter in handleSearch, for the lower-cased search term.
SearchMatches(book, searchTerm) ==
    \/ Includes(ToLowerCase(book.title.v), searchTerm)
    \/ Includes(ToLowerCase(book.author.v), searchTerm)

\* applyStatusFilter: filteredBooks afterwards, for the dropdown's value.
ApplyStatusFilter(filtered, statusValue) ==
    IF statusValue # <<>>
    THEN LET HasStatus(book) == book.status = Str(statusValue)
         IN SelectSeq(filtered, HasStatus)
    ELSE filtered

EscapeCharKeepingLt(c) ==
    CASE c = "&" -> <<"&", "a", "m", "p", ";">>
      [] c = ">" -> <<"&", "g", "t", ";">>
      [] c = "\"" -> <<"&", "q", "u", "o", "t", ";">>
      [] c = "'" -> <<"&", "#", "0", "3", "9", ";">>
      [] OTHER -> <<c>>

\* The map of escapeHtml.
EscapeChar(c) ==
    CASE c = "&" -> <<"&", "a", "m", "p", ";">>
      [] c = "<" -> <<"&", "l", "t", ";">>
      [] c = ">" -> <<"&", "g", "t", ";">>
      [] c = "\"" -> <<"&", "q", "u", "o", "t", ";">>
      [] c = "'" -> <<"&", "#", "0", "3", "9", ";">>
      [] OTHER -> <<c>>

\* text.replace(/[&<>"']/g, m => map[m])
RECURSIVE ReplaceAll(_)
ReplaceAll(s) == IF s = <<>> THEN <<>> ELSE EscapeChar(Head(s)) \o ReplaceAll(Tail(s))

\* escapeHtml
EscapeHtml(text) == IF ~Truthy(text) THEN <<>> ELSE ReplaceAll(text.v)

\* The decimal digits of a natural number.
RECURSIVE Digits(_)
Digits(n) ==
    LET digit == <<"0", "1", "2", "3", "4", "5", "6", "7", "8", "9">>[(n % 10) + 1]
    IN IF n < 10 THEN <<digit>> ELSE Append(Digits(n \div 10), digit)

\* A value interpolated into a template literal: String(value).
TemplateString(x) ==
    CASE x.k = "null" -> <<"n", "u", "l", "l">>
      [] x.k = "undefined" -> <<"u", "n", "d", "e", "f", "i", "n", "e", "d">>
      [] x.k = "num" -> Digits(x.v)
      [] OTHER -> x.v

\* formatStatus
FormatStatus(status) ==
    CASE status = StatusRead -> Str(<<"R", "e", "a", "d">>)
      [] status = StatusReading -> Str(<<"C", "u", "r", "r", "e", "n", "t", "l", "y", " ",
                                        "R", "e", "a", "d", "i", "n", "g">>)
      [] status = StatusToRead -> Str(<<"T", "o", " ", "R", "e", "a", "d">>)
      [] OTHER -> status

\* Markup: the literal pieces of a template, and the text interpolated in it.
Tpl(s) == [tpl |-> s]
Txt(chars) == [txt |-> chars]

\* generateStars
GenerateStars(rating) ==
    [i \in 1..5 |-> IF i <= rating THEN Tpl("<i class=fas-fa-star></i>")
                    ELSE Tpl("<i class=far-fa-star></i>")]

\* The template of one book card in renderBooks.
BookCard(book) ==
    <<Tpl("<div class=book-card><h3>"), Txt(EscapeHtml(book.title)),
      Tpl("</h3><p class=author>by "), Txt(EscapeHtml(book.author)),
      Tpl("</p><div class=metadata>")>>
    \o (IF Truthy(book.genre)
        THEN <<Tpl("<span><i class=fas-fa-tag></i> "), Txt(EscapeHtml(book.genre)),
               Tpl("</span>")>>
        ELSE <<>>)
    \o (IF Truthy(book.year_published)
        THEN <<Tpl("<span><i class=fas-fa-calendar></i> "),
               Txt(TemplateString(book.year_published)), Tpl("</span>")>>
        ELSE <<>>)
    \o (IF Truthy(book.isbn)
        THEN <<Tpl("<span><i class=fas-fa-barcode></i> "), Txt(EscapeHtml(book.isbn)),
               Tpl("</span>")>>
        ELSE <<>>)
    \o <<Tpl("</div><div><span class=status-badge status-"),
         Txt(TemplateString(book.status)), Tpl(">"),
         Txt(TemplateString(FormatStatus(book.status))), Tpl("</span>")>>
    \o (IF Truthy(book.rating)
        THEN <<Tpl("<span class=rating>")>> \o GenerateStars(book.rating.v)
               \o <<Tpl("</span>")>>
        ELSE <<>>)
    \o (IF Truthy(book.notes)
        THEN <<Tpl("<p class=notes>"), Txt(EscapeHtml(book.notes)), Tpl("</p>")>>
        ELSE <<>>)
    \o <<Tpl("<div class=book-actions><button class=btn-edit onclick=openEditModal("),
         Txt(TemplateString(Num(book.id))),
         Tpl(")>Edit</button><button class=btn-delete onclick=deleteBook("),
         Txt(TemplateString(Num(book.id))), Tpl(")>Delete</button></div></div>")>>

\* The books the client is shown: rows as GET /api/books returns them.
BookAb ==
    Row(1, [title |-> Str(<<"A", "b">>), author |-> Str(<<"c">>), isbn |-> Null,
            genre |-> Null, year_published |-> Null, status |-> StatusRead,
            rating |-> Num(5), notes |-> Null], 0)

BookLt ==
    Row(2, [title |-> Str(<<"c", "<">>), author |-> Str(<<"a", "B">>),
            isbn |-> Str(<<"\"">>), genre |-> Str(<<">">>),
            year_published |-> Num(1949), status |-> Null,
            rating |-> Null, notes |-> Str(<<"'", "&">>)], 0)

BookTag ==
    Row(3, [title |-> Str(<<"<", "b", ">">>), author |-> Str(<<"&">>), isbn |-> Null,
            genre |-> Null, year_published |-> Null, status |-> StatusToRead,
            rating |-> Null, notes |-> Null], 1)

\* A row with markup for a status: the ENUM keeps it out of the table.
BookBadStatus ==
    Row(4, [title |-> TextA, author |-> TextB, isbn |-> Null, genre |-> Null,
            year_published |-> Null, status |-> BadStatus, rating |-> Null,
            notes |-> Null], 1)

\* Of these rows, those the table can hold.
ClientBooks ==
    {b \in {BookAb, BookLt, BookTag, BookBadStatus} :
        ConstraintError(RowValues(b), {}) = "ok"}

\* The card of each of these books, computed once.
BookCards == [book \in ClientBooks |-> BookCard(book)]

\* filteredBooks.map(book => ...).join('')
RECURSIVE JoinCards(_)
JoinCards(seq) ==
    IF seq = <<>> THEN <<>>
    ELSE (IF Head(seq) \in ClientBooks THEN BookCards[Head(seq)] ELSE BookCard(Head(seq)))
         \o JoinCards(Tail(seq))

EmptyState == <<Tpl("<div class=empty-state><h3>No books found</h3></div>")>>
Loading == <<Tpl("<div class=loading><div class=spinner></div></div>")>>

RenderBooksPlaceholderFirst(filtered) == EmptyState \o JoinCards(filtered)

\* renderBooks: booksList.innerHTML afterwards.
RenderBooks(filtered) == IF Len(filtered) = 0 THEN EmptyState ELSE JoinCards(filtered)

\* The client before it has run: the script's initial values.
ClientNotStarted ==
    /\ books = ArrayJson(<<>>)
    /\ filteredBooks = <<>>
    /\ searchInput = <<>>
    /\ filterStatus = <<>>
    /\ booksList = <<>>
    /\ flows = EmptyBag

(***************************************************************************)
(* The router.                                                             *)
(***************************************************************************)
\* The router over an empty table.  database_setup.sql seeds three sample rows;
\* the router treats them as any other row, and rows like them are created by
\* POST here, so the ids start at 1 instead of 4.
Init ==
    /\ ClientNotStarted
    /\ table = {}
    /\ autoInc = 1
    /\ handlers = EmptyBag
    /\ resp = NoResponse
    /\ deleted = {}

\* router.post('/'): validation, then the INSERT.
PostBooks(body) ==
    /\ resp = NoResponse
    /\ IF ~Truthy(body.title) \/ ~Truthy(body.author)
       THEN /\ resp' = Response("POST", 0, 400, ErrorJson("Title and author are required"), 0)
            /\ UNCHANGED <<table, autoInc, handlers>>
       ELSE IF ConstraintError(ColumnValues(body), table) = "ok"
       THEN /\ autoInc <= MaxId
            /\ \E now \in CurrentTimestamps(table) :
                   table' = table \cup
                       {Row(NextInsertId(table, autoInc), ColumnValues(body), now)}
            /\ autoInc' = autoInc + 1
            /\ handlers' = handlers (+)
                   SetToBag({Suspended("postSelect", NextInsertId(table, autoInc), body)})
            /\ UNCHANGED resp
       ELSE /\ resp' = Response("POST", 0, 500,
                                ErrorJson(ConstraintError(ColumnValues(body), table)), 1)
            /\ UNCHANGED <<table, autoInc, handlers>>
    /\ UNCHANGED <<deleted, clientVars>>

\* router.post('/'), resumed: the SELECT of the inserted row and the 201.
PostSelect(h) ==
    /\ resp = NoResponse
    /\ BagIn(h, handlers)
    /\ h.pc = "postSelect"
    /\ resp' = Response("POST", h.id, 201, FirstRow(SelectById(table, h.id)), 2)
    /\ handlers' = handlers (-) SetToBag({h})
    /\ UNCHANGED <<table, autoInc, deleted, clientVars>>

\* router.put('/:id'): the UPDATE, with no validation before it, and the
\* test of affectedRows.
PutBooks(id, body) ==
    /\ resp = NoResponse
    /\ IF UpdateError(table, id, ColumnValues(body)) # "ok"
       THEN /\ resp' = Response("PUT", id, 500,
                                ErrorJson(UpdateError(table, id, ColumnValues(body))), 1)
            /\ UNCHANGED <<table, handlers>>
       ELSE /\ table' = UpdateRows(table, id, ColumnValues(body))
            /\ IF AffectedRows(table, id) = 0
               THEN /\ resp' = Response("PUT", id, 404, ErrorJson("Book not found"), 1)
                    /\ UNCHANGED handlers
               ELSE /\ handlers' = handlers (+) SetToBag({Suspended("putSelect", id, body)})
                    /\ UNCHANGED resp
    /\ UNCHANGED <<autoInc, deleted, clientVars>>

\* router.put('/:id'), resumed: the SELECT of the updated row and the 200.
PutSelect(h) ==
    /\ resp = NoResponse
    /\ BagIn(h, handlers)
    /\ h.pc = "putSelect"
    /\ resp' = Response("PUT", h.id, 200, FirstRow(SelectById(table, h.id)), 2)
    /\ handlers' = handlers (-) SetToBag({h})
    /\ UNCHANGED <<table, autoInc, deleted, clientVars>>

\* router.delete('/:id')
DeleteBook(id) ==
    /\ resp = NoResponse
    /\ table' = DeleteRows(table, id)
    /\ IF AffectedRows(table, id) = 0
       THEN /\ resp' = Response("DELETE", id, 404, ErrorJson("Book not found"), 1)
            /\ UNCHANGED deleted
       ELSE /\ resp' = Response("DELETE", id, 200, MessageJson, 1)
            /\ deleted' = deleted \cup {id}
    /\ UNCHANGED <<autoInc, handlers, clientVars>>

\* router.get('/:id')
GetBook(id) ==
    /\ resp = NoResponse
    /\ resp' = IF SelectById(table, id) = {}
               THEN Response("GET", id, 404, ErrorJson("Book not found"), 1)
               ELSE Response("GET", id, 200, FirstRow(SelectById(table, id)), 1)
    /\ UNCHANGED <<table, autoInc, handlers, deleted, clientVars>>

\* router.get('/')
GetBooks ==
    /\ resp = NoResponse
    /\ \E s \in OrderedByCreatedDesc(table) :
           resp' = Response("LIST", 0, 200, ArrayJson(s), 1)
    /\ UNCHANGED <<table, autoInc, handlers, deleted, clientVars>>

\* router.get('/stats/overview')
GetStats ==
    /\ resp = NoResponse
    /\ resp' = Response("STATS", 0, 200, StatsRow(table), 1)
    /\ UNCHANGED <<table, autoInc, handlers, deleted, clientVars>>

\* res.json(...) has written the response: the event loop runs the next
\* callback once the current one has returned.
ResponseSent ==
    /\ resp # NoResponse
    /\ resp' = NoResponse
    /\ UNCHANGED <<table, autoInc, handlers, deleted, clientVars>>

\* A request is taken up while fewer than max handlers are suspended.
HandlersBelow(max) == BagCardinality(handlers) < max

Next ==
    \/ \E body \in Bodies : HandlersBelow(MaxHandlers) /\ PostBooks(body)
    \/ \E h \in BagToSet(handlers) : PostSelect(h)
    \/ \E id \in Ids, body \in Bodies : HandlersBelow(MaxHandlers) /\ PutBooks(id, body)
    \/ \E h \in BagToSet(handlers) : PutSelect(h)
    \/ \E id \in Ids : DeleteBook(id)
    \/ \E id \in Ids : GetBook(id)
    \/ GetBooks
    \/ GetStats
    \/ ResponseSent

Spec == Init /\ [][Next]_vars

(***************************************************************************)
(* Updates, deletions and reads of one stored row, with more handlers      *)
(* suspended at once.  The row is the one `POST {title, author}` creates.  *)
(***************************************************************************)
StoredRow ==
    Row(1, ColumnValues(Body(TextA, TextB, Undefined, Undefined, Undefined,
                             Undefined, Undefined, Undefined)), 0)

InitUpdate ==
    /\ ClientNotStarted
    /\ table = {StoredRow}
    /\ autoInc = 2
    /\ handlers = EmptyBag
    /\ resp = NoResponse
    /\ deleted = {}

NextUpdate ==
    \/ \E id \in Ids, body \in Bodies : HandlersBelow(MaxUpdates) /\ PutBooks(id, body)
    \/ \E h \in BagToSet(handlers) : PutSelect(h)
    \/ \E id \in Ids : DeleteBook(id)
    \/ \E id \in Ids : GetBook(id)
    \/ ResponseSent

SpecUpdate == InitUpdate /\ [][NextUpdate]_vars

(***************************************************************************)
(* The statistics over tables of every status and rating.                  *)
(***************************************************************************)
StatsVals(status, rating) ==
    [title |-> TextA, author |-> TextB, isbn |-> Null, genre |-> Null,
     year_published |-> Null, status |-> status, rating |-> rating, notes |-> Null]

\* The tables of n rows.
StatsTables(n) ==
    {{Row(i, StatsVals(f[i][1], f[i][2]), 0) : i \in 1..n} :
        f \in [1..n -> (StatusEnum \cup {Null}) \X {Null, Num(1), Num(2)}]}

InitStats ==
    /\ ClientNotStarted
    /\ \E n \in 0..MaxStatsRows : table \in StatsTables(n)
    /\ autoInc = Cardinality(table) + 1
    /\ handlers = EmptyBag
    /\ resp = NoResponse
    /\ deleted = {}

NextStats == GetStats \/ ResponseSent

SpecStats == InitStats /\ [][NextStats]_vars

(***************************************************************************)
(* The client (script.js).  The server is its environment here: a fetch    *)
(* settles with a success response, with a non-success response carrying   *)
(* the router's JSON error body, or with a network failure.                *)
(***************************************************************************)
\* The lists GET /api/books may answer with.
ServerLists ==
    UNION {{s \in [1..n -> ClientBooks] : \A i, j \in 1..n : i # j => s[i] # s[j]} :
           n \in 0..MaxBooks}

SearchTexts == {<<>>, <<"a">>, <<"A", "B">>, <<"<">>}

FilterValues == {<<>>} \cup {st.v : st \in StatusEnum}

Outcomes == {"ok", "error", "network"}

\* The lists a fetch of the books may carry: none unless it succeeds.
ResponseLists(outcome) == IF outcome = "ok" THEN ServerLists ELSE {<<>>}

Flow(kind, pc) == [kind |-> kind, pc |-> pc]

InitClient ==
    /\ table = {}
    /\ autoInc = 1
    /\ handlers = EmptyBag
    /\ resp = NoResponse
    /\ deleted = {}
    /\ ClientNotStarted

\* The DOMContentLoaded listener: loadBooks(), loadStatistics() and
\* setupEventListeners().  The statistics cards are not part of the state.
DomContentLoaded ==
    /\ booksList = <<>>
    /\ booksList' = Loading
    /\ flows' = flows (+) SetToBag({Flow("load", "books")})
    /\ UNCHANGED <<books, filteredBooks, searchInput, filterStatus, serverVars>>

Started == booksList # <<>>

\* A card of the book is on the page, with its Edit and Delete buttons.
CardShown(bookId) ==
    /\ Started
    /\ booksList # Loading
    /\ \E i \in 1..Len(filteredBooks) : filteredBooks[i].id = bookId

\* handleSearch, run on an input event of the search field.
HandleSearch(text) ==
    /\ Started
    /\ searchInput' = text
    /\ IF books.k = "array"
       THEN LET Test(book) == SearchMatches(book, ToLowerCase(text))
            IN /\ filteredBooks' =
                      ApplyStatusFilter(SelectSeq(books.items, Test), filterStatus)
               /\ booksList' = RenderBooks(filteredBooks')
       ELSE \* books.filter is not a function: the listener throws
            UNCHANGED <<filteredBooks, booksList>>
    /\ UNCHANGED <<books, filterStatus, flows, serverVars>>

\* handleFilter, run on a change event of the status dropdown.
HandleFilter(value) ==
    /\ Started
    /\ filterStatus' = value
    /\ filteredBooks' = ApplyStatusFilter(filteredBooks, value)
    /\ booksList' = RenderBooks(filteredBooks')
    /\ UNCHANGED <<books, searchInput, flows, serverVars>>

\* loadBooks, resumed when its fetch has settled.
LoadBooksSettled(outcome, list) ==
    CASE outcome = "ok" ->
           /\ books' = ArrayJson(list)
           /\ filteredBooks' = list
           /\ booksList' = RenderBooks(list)
      [] outcome = "error" ->
           \* books is assigned the error body; [...books] throws
           /\ books' = ErrorJson("storage error")
           /\ UNCHANGED <<filteredBooks, booksList>>
      [] OTHER -> UNCHANGED <<books, filteredBooks, booksList>>

\* The flow f at `await loadBooks()` or in the page's own loadBooks().
BooksFetchSettled(f, outcome, list) ==
    /\ BagIn(f, flows)
    /\ f.pc = "books"
    /\ LoadBooksSettled(outcome, list)
    /\ flows' = IF f.kind = "load"
                THEN flows (-) SetToBag({f})
                ELSE (flows (-) SetToBag({f})) (+) SetToBag({Flow(f.kind, "stats")})
    /\ UNCHANGED <<searchInput, filterStatus, serverVars>>

\* handleAddBook, up to its fetch.
HandleAddBook ==
    /\ Started
    /\ flows' = flows (+) SetToBag({Flow("add", "request")})
    /\ UNCHANGED <<books, filteredBooks, searchInput, filterStatus, booksList,
                   serverVars>>

\* handleEditBook, up to its fetch.  The edit form can be submitted once the
\* page's listeners are set up; what it holds does not matter to the client.
HandleEditBook ==
    /\ Started
    /\ flows' = flows (+) SetToBag({Flow("edit", "request")})
    /\ UNCHANGED <<books, filteredBooks, searchInput, filterStatus, booksList,
                   serverVars>>

DeleteBookUnconfirmed(bookId, confirmed) ==
    /\ CardShown(bookId)
    /\ flows' = flows (+) SetToBag({Flow("delete", "request")})
    /\ UNCHANGED <<books, filteredBooks, searchInput, filterStatus, booksList,
                   serverVars>>

\* deleteBook, up to its fetch: nothing is sent unless the user confirms.
DeleteBookClicked(bookId, confirmed) ==
    /\ CardShown(bookId)
    /\ flows' = IF confirmed THEN flows (+) SetToBag({Flow("delete", "request")})
                ELSE flows
    /\ UNCHANGED <<books, filteredBooks, searchInput, filterStatus, booksList,
                   serverVars>>

\* handleAddBook, handleEditBook or deleteBook, resumed when the POST, PUT or
\* DELETE has settled: on success it calls loadBooks().
RequestSettled(f, outcome) ==
    /\ BagIn(f, flows)
    /\ f.pc = "request"
    /\ IF outcome = "ok"
       THEN /\ booksList' = Loading
            /\ flows' = (flows (-) SetToBag({f})) (+) SetToBag({Flow(f.kind, "books")})
       ELSE /\ flows' = flows (-) SetToBag({f})
            /\ UNCHANGED booksList
    /\ UNCHANGED <<books, filteredBooks, searchInput, filterStatus, serverVars>>

\* The same functions resumed after `await loadStatistics()`, which never
\* throws: the form is reset, or the modal hidden.
StatisticsSettled(f) ==
    /\ BagIn(f, flows)
    /\ f.pc = "stats"
    /\ flows' = flows (-) SetToBag({f})
    /\ UNCHANGED <<books, filteredBooks, searchInput, filterStatus, booksList, serverVars>>

\* The user starts a request while fewer than max are in flight.
FlowsBelow(max) == BagCardinality(flows) < max

NextClient ==
    \/ DomContentLoaded
    \/ \E text \in SearchTexts : HandleSearch(text)
    \/ \E value \in FilterValues : HandleFilter(value)
    \/ \E f \in BagToSet(flows), outcome \in Outcomes :
           \E list \in ResponseLists(outcome) : BooksFetchSettled(f, outcome, list)
    \/ FlowsBelow(MaxFlows) /\ HandleAddBook
    \/ FlowsBelow(MaxFlows) /\ HandleEditBook
    \/ \E id \in {b.id : b \in ClientBooks}, confirmed \in BOOLEAN :
           FlowsBelow(MaxFlows) /\ DeleteBookClicked(id, confirmed)
    \/ \E f \in BagToSet(flows), outcome \in Outcomes : RequestSettled(f, outcome)
    \/ \E f \in BagToSet(flows) : StatisticsSettled(f)

SpecClient == InitClient /\ [][NextClient]_vars

(***************************************************************************)
(* The client and the router together.  A fetch is in flight from the      *)
(* moment the client calls it: the router takes it up at some later step   *)
(* and its answer reaches the client at a still later one, so the answers  *)
(* of two fetches may arrive in either order.  Of the answer to a POST,    *)
(* PUT or DELETE the client reads response.ok only, which the handler's    *)
(* first statement decides, so the router takes one step for each.  The    *)
(* client's state holds no form values: a request carries some body, and   *)
(* names some id.                                                          *)
(***************************************************************************)
\* The flow's fetch with the router's answer on its way back.
Answered(f, outcome, list) ==
    [kind |-> f.kind, pc |-> f.pc, outcome |-> outcome, list |-> list]

\* The router has not taken up the flow's fetch yet.
Waiting(f) == "outcome" \notin DOMAIN f

InitFetches ==
    /\ ClientNotStarted
    /\ table = {StoredRow}
    /\ autoInc = 2
    /\ handlers = EmptyBag
    /\ resp = NoResponse
    /\ deleted = {}

\* router.get('/') answering the fetch of loadBooks.
ServeList(f) ==
    /\ BagIn(f, flows)
    /\ Waiting(f)
    /\ f.pc = "books"
    /\ \E s \in OrderedByCreatedDesc(table) :
           flows' = (flows (-) SetToBag({f})) (+) SetToBag({Answered(f, "ok", s)})
    /\ UNCHANGED <<books, filteredBooks, searchInput, filterStatus, booksList,
                   serverVars>>

\* router.post('/') answering the fetch of handleAddBook.
ServeCreate(f, body) ==
    /\ BagIn(f, flows)
    /\ f = Flow("add", "request")
    /\ IF /\ Truthy(body.title)
          /\ Truthy(body.author)
          /\ ConstraintError(ColumnValues(body), table) = "ok"
       THEN /\ autoInc <= MaxId
            /\ \E now \in CurrentTimestamps(table) :
                   table' = table \cup
                       {Row(NextInsertId(table, autoInc), ColumnValues(body), now)}
            /\ autoInc' = autoInc + 1
            /\ flows' = (flows (-) SetToBag({f})) (+) SetToBag({Answered(f, "ok", <<>>)})
       ELSE /\ flows' = (flows (-) SetToBag({f})) (+) SetToBag({Answered(f, "error", <<>>)})
            /\ UNCHANGED <<table, autoInc>>
    /\ UNCHANGED <<handlers, resp, deleted, books, filteredBooks, searchInput,
                   filterStatus, booksList>>

\* router.put('/:id') answering the fetch of handleEditBook.
ServeUpdate(f, id, body) ==
    /\ BagIn(f, flows)
    /\ f = Flow("edit", "request")
    /\ IF UpdateError(table, id, ColumnValues(body)) = "ok" /\ AffectedRows(table, id) # 0
       THEN /\ table' = UpdateRows(table, id, ColumnValues(body))
            /\ flows' = (flows (-) SetToBag({f})) (+) SetToBag({Answered(f, "ok", <<>>)})
       ELSE /\ flows' = (flows (-) SetToBag({f})) (+) SetToBag({Answered(f, "error", <<>>)})
            /\ UNCHANGED table
    /\ UNCHANGED <<autoInc, handlers, resp, deleted, books, filteredBooks,
                   searchInput, filterStatus, booksList>>

\* router.delete('/:id') answering the fetch of deleteBook.
ServeDelete(f, id) ==
    /\ BagIn(f, flows)
    /\ f = Flow("delete", "request")
    /\ table' = DeleteRows(table, id)
    /\ IF AffectedRows(table, id) # 0
       THEN /\ deleted' = deleted \cup {id}
            /\ flows' = (flows (-) SetToBag({f})) (+) SetToBag({Answered(f, "ok", <<>>)})
       ELSE /\ flows' = (flows (-) SetToBag({f})) (+) SetToBag({Answered(f, "error", <<>>)})
            /\ UNCHANGED deleted
    /\ UNCHANGED <<autoInc, handlers, resp, books, filteredBooks, searchInput,
                   filterStatus, booksList>>

NextFetches ==
    \/ DomContentLoaded
    \/ FlowsBelow(MaxFetches) /\ HandleAddBook
    \/ FlowsBelow(MaxFetches) /\ HandleEditBook
    \/ \E id \in Ids, confirmed \in BOOLEAN :
           FlowsBelow(MaxFetches) /\ DeleteBookClicked(id, confirmed)
    \/ \E f \in BagToSet(flows) : ServeList(f)
    \/ \E f \in BagToSet(flows), body \in Bodies : ServeCreate(f, body)
    \/ \E f \in BagToSet(flows), id \in Ids, body \in Bodies : ServeUpdate(f, id, body)
    \/ \E f \in BagToSet(flows), id \in Ids : ServeDelete(f, id)
    \/ \E f \in BagToSet(flows) : ~Waiting(f) /\ RequestSettled(f, f.outcome)
    \/ \E f \in BagToSet(flows) : ~Waiting(f) /\ BooksFetchSettled(f, f.outcome, f.list)
    \/ \E f \in BagToSet(flows) : StatisticsSettled(f)

SpecFetches == InitFetches /\ [][NextFetches]_vars

(***************************************************************************)
(* Claims about the router.                                                *)
(***************************************************************************)
MissingOrEmpty(x) == x = Undefined \/ x = Null \/ x = Str(<<>>)

OptionalColumns == {"isbn", "genre", "year_published", "rating", "notes"}

TitleAuthorOnly(body) ==
    /\ ~MissingOrEmpty(body.title)
    /\ ~MissingOrEmpty(body.author)
    /\ \A c \in MutableColumns \ {"title", "author"} : body[c] = Undefined

\* C1: a create request whose title or author is missing, null or empty is
\* answered 400 before any storage query, and leaves the table as it was.
C1_InvalidCreateRejected ==
    [][\A body \in Bodies :
          ((MissingOrEmpty(body.title) \/ MissingOrEmpty(body.author)) /\ PostBooks(body))
          => /\ resp'.op = "POST"
             /\ resp'.status = 400
             /\ resp'.queries = 0
             /\ table' = table]_vars

\* The table holds a row when a create request has just been refused with 400.
C1_Witness ==
    /\ resp.op = "POST"
    /\ resp.status = 400
    /\ resp.queries = 0
    /\ table # {}

\* C2: a create request with title and author only stores a row whose status
\* is to-read and whose other optional columns are NULL.
C2_DefaultsOnCreate ==
    [][\A body \in Bodies :
          (TitleAuthorOnly(body) /\ table' # table /\ PostBooks(body))
          => \A r \in table' \ table :
                 /\ r.status = StatusToRead
                 /\ \A c \in OptionalColumns : r[c] = Null]_vars

\* C3: an update request for an id no row has is answered 404 and leaves the
\* table as it was, whatever its body.
C3_UpdateUnknownId ==
    [][\A id \in Ids, body \in Bodies :
          (SelectById(table, id) = {} /\ PutBooks(id, body))
          => /\ resp'.op = "PUT"
             /\ resp'.id = id
             /\ resp'.status = 404
             /\ table' = table]_vars

\* An update of an id that is not stored was answered 404 next to a stored row.
C3_Witness ==
    /\ resp.op = "PUT"
    /\ resp.status = 404
    /\ table # {}
    /\ SelectById(table, resp.id) = {}

\* C4: once DELETE /:id has answered 200 for an id, no row has that id again,
\* and a GET /:id answered since then for that id is a 404.
C4_DeletedStaysGone ==
    \A id \in deleted :
        /\ SelectById(table, id) = {}
        /\ (resp.op = "GET" /\ resp.id = id) => resp.status = 404

\* A deleted id was fetched after a later book had been created.
C4_Witness ==
    /\ resp.op = "GET"
    /\ resp.id \in deleted
    /\ resp.status = 404
    /\ \E r \in table : r.id > resp.id

SameIsbn(r, q) == r.isbn # Null /\ r.isbn = q.isbn

\* C5: a create request with the isbn of a stored row is answered 500 and
\* adds no row, and no two rows ever hold the same non-NULL isbn.
C5_IsbnUnique ==
    [][/\ \A r, q \in table' : SameIsbn(r, q) => r = q
       /\ \A body \in Bodies :
              (/\ Truthy(body.title) /\ Truthy(body.author)
               /\ ColumnValues(body).isbn # Null
               /\ \E r \in table : r.isbn = ColumnValues(body).isbn
               /\ PostBooks(body))
              => /\ resp'.op = "POST"
                 /\ resp'.status = 500
                 /\ table' = table]_vars

\* A create request was refused as a duplicate of a stored isbn.
C5_Witness ==
    /\ resp.op = "POST"
    /\ resp.status = 500
    /\ resp.body = ErrorJson("Duplicate entry")
    /\ \E r \in table : r.isbn # Null

RatingCount(rows, v) == Cardinality({r \in rows : r.rating = Num(v)})

\* The sum and the number of the ratings of the table, rating by rating.
RatingSum(rows) ==
    RatingCount(rows, 1) + 2 * RatingCount(rows, 2) + 3 * RatingCount(rows, 3)
        + 4 * RatingCount(rows, 4) + 5 * RatingCount(rows, 5)

RatingNumber(rows) ==
    RatingCount(rows, 1) + RatingCount(rows, 2) + RatingCount(rows, 3)
        + RatingCount(rows, 4) + RatingCount(rows, 5)

StatsCountsRight(st) ==
    /\ st.total_books = Cardinality(table)
    /\ st.books_read = Cardinality({r \in table : r.status = StatusRead})
    /\ st.books_reading = Cardinality({r \in table : r.status = StatusReading})
    /\ st.books_to_read = Cardinality({r \in table : r.status = StatusToRead})

\* C6, as claimed: the statistics hold the number of rows, the number of rows
\* of each status, and the exact quotient of the sum of the ratings by their
\* number.
C6_StatsExactMean ==
    resp.op = "STATS" =>
        /\ StatsCountsRight(resp.body)
        /\ RatingNumber(table) > 0 =>
               /\ resp.body.average_rating # Null
               /\ resp.body.average_rating.unscaled * RatingNumber(table)
                      = RatingSum(table) * 10^resp.body.average_rating.scale

Distance(a, b) == IF a >= b THEN a - b ELSE b - a

\* C6, amended: the counts are as claimed; average_rating is NULL when no row
\* has a rating, and otherwise the four-digit decimal nearest to the quotient
\* of the sum of the ratings by their number.
C6_StatsRoundedMean ==
    resp.op = "STATS" =>
        /\ StatsCountsRight(resp.body)
        /\ RatingNumber(table) = 0 => resp.body.average_rating = Null
        /\ RatingNumber(table) > 0 =>
               /\ resp.body.average_rating # Null
               /\ resp.body.average_rating.scale = 4
               /\ 2 * Distance(resp.body.average_rating.unscaled * RatingNumber(table),
                               RatingSum(table) * 10^4) <= RatingNumber(table)

\* Statistics were taken of a table whose ratings 1, 1 and 2 have a mean with
\* no four-digit form, and of rows of more than one status.
C6_Witness ==
    /\ resp.op = "STATS"
    /\ RatingNumber(table) = 3
    /\ RatingSum(table) = 4
    /\ resp.body.average_rating = Decimal4(13333)
    /\ resp.body.books_read = 1
    /\ resp.body.books_to_read = 1

(***************************************************************************)
(* Claims about the client.                                                *)
(***************************************************************************)
\* The needle occurs in the text, letters compared without regard to case.
ContainsIgnoringCase(hay, needle) ==
    \E i \in 0..(Len(hay) - Len(needle)) :
        \A j \in 1..Len(needle) : Lower(hay[i + j]) = Lower(needle[j])

\* The book is to be shown for a search text and a dropdown value.
Shown(book, text, statusValue) ==
    /\ \/ ContainsIgnoringCase(book.title.v, text)
       \/ ContainsIgnoringCase(book.author.v, text)
    /\ statusValue = <<>> \/ book.status = Str(statusValue)

\* The books of `books`, in their order, that are to be shown.
ExpectedShown(bks, text, statusValue) ==
    LET list == IF bks.k = "array" THEN bks.items ELSE <<>>
        Keep(book) == Shown(book, text, statusValue)
    IN SelectSeq(list, Keep)

\* C7: right after handleSearch, filteredBooks is the books of `books`, in
\* their order, that match the search text without regard to case and have
\* the selected status, whatever filteredBooks held before.
C7_SearchRecomputes ==
    [][\A text \in SearchTexts :
          HandleSearch(text) => filteredBooks' = ExpectedShown(books, text, filterStatus)]_vars

\* While `books` holds a list, handleSearch does recompute filteredBooks from it.
SearchRecomputesOverList ==
    [][\A text \in SearchTexts :
          (HandleSearch(text) /\ books.k = "array")
          => filteredBooks' = ExpectedShown(books, text, filterStatus)]_vars

\* C8: search and status filter compose by intersection: a search or
\* status-filter event that finds filteredBooks equal to the books of `books`
\* matching the search text and the selected status leaves it equal to the
\* books matching the search text and the status selected now.
C8_FilterIntersects ==
    [][(/\ \/ \E text \in SearchTexts : HandleSearch(text)
           \/ \E value \in FilterValues : HandleFilter(value)
        /\ books.k = "array"
        /\ filteredBooks = ExpectedShown(books, searchInput, filterStatus))
          => filteredBooks' = ExpectedShown(books, searchInput', filterStatus')]_vars

\* C9: a list fetch, create, update or delete that ends in a non-success
\* response or a network failure leaves books and filteredBooks as they were.
C9_FailureLeavesState ==
    [][\A f \in BagToSet(flows), outcome \in {"error", "network"} :
          (RequestSettled(f, outcome)
              \/ \E list \in ResponseLists(outcome) : BooksFetchSettled(f, outcome, list))
          => UNCHANGED <<books, filteredBooks>>]_vars

Entities ==
    {<<"&", "a", "m", "p", ";">>, <<"&", "l", "t", ";">>, <<"&", "g", "t", ";">>,
     <<"&", "q", "u", "o", "t", ";">>, <<"&", "#", "0", "3", "9", ";">>}

\* The text holds none of < > " ' and no & but the first character of an entity.
Inert(chars) ==
    \A i \in 1..Len(chars) :
        /\ chars[i] \notin {"<", ">", "\"", "'"}
        /\ chars[i] = "&" =>
               \E e \in Entities :
                   /\ i + Len(e) - 1 <= Len(chars)
                   /\ SubSeq(chars, i, i + Len(e) - 1) = e

EntityChar(e) ==
    CASE e = <<"&", "a", "m", "p", ";">> -> "&"
      [] e = <<"&", "l", "t", ";">> -> "<"
      [] e = <<"&", "g", "t", ";">> -> ">"
      [] e = <<"&", "q", "u", "o", "t", ";">> -> "\""
      [] OTHER -> "'"

\* The text a browser shows for the markup text: entities read back.
RECURSIVE Displayed(_)
Displayed(chars) ==
    IF chars = <<>> THEN <<>>
    ELSE IF Head(chars) # "&" THEN <<Head(chars)>> \o Displayed(Tail(chars))
    ELSE LET starts == {e \in Entities :
                           Len(e) <= Len(chars) /\ SubSeq(chars, 1, Len(e)) = e}
         IN IF starts = {} THEN <<Head(chars)>> \o Displayed(Tail(chars))
            ELSE LET e == CHOOSE x \in starts : TRUE
                 IN <<EntityChar(e)>> \o Displayed(SubSeq(chars, Len(e) + 1, Len(chars)))

InsertedTexts == {booksList[i].txt : i \in {j \in 1..Len(booksList) : "txt" \in DOMAIN booksList[j]}}

TextColumns == {"title", "author", "genre", "isbn", "notes"}

Positions(markup, token) ==
    LET Here(i) == markup[i] = token
    IN SelectSeq([i \in 1..Len(markup) |-> i], Here)

CardOpening == Tpl("<div class=book-card><h3>")
DeleteButton == Tpl(")>Edit</button><button class=btn-delete onclick=deleteBook(")
Placeholder == Tpl("<div class=empty-state><h3>No books found</h3></div>")

\* The ids the Delete buttons of the markup carry, in the markup's order.
DeleteButtonIds(markup) ==
    LET at == Positions(markup, DeleteButton)
    IN [k \in 1..Len(at) |-> markup[at[k] + 1].txt]

\* C11: what renderBooks has put on the page is the one empty-state
\* placeholder and no card when filteredBooks is empty, and otherwise no
\* placeholder and one card per element of filteredBooks, in its order.
C11_PlaceholderOrCards ==
    (Started /\ booksList # Loading) =>
        IF filteredBooks = <<>>
        THEN /\ Len(Positions(booksList, Placeholder)) = 1
             /\ Len(booksList) = 1
        ELSE /\ Positions(booksList, Placeholder) = <<>>
             /\ Len(Positions(booksList, CardOpening)) = Len(filteredBooks)
             /\ DeleteButtonIds(booksList)
                    = [k \in 1..Len(filteredBooks) |-> Digits(filteredBooks[k].id)]

\* Two books are on the page, the second of the list's ids first.
C11_Witness ==
    /\ Started
    /\ booksList # Loading
    /\ Len(filteredBooks) = 2
    /\ filteredBooks[1].id > filteredBooks[2].id
    /\ Len(Positions(booksList, CardOpening)) = 2

\* The page shows the placeholder although `books` holds a book.
C11_WitnessEmpty ==
    /\ Started
    /\ filteredBooks = <<>>
    /\ booksList = <<Placeholder>>
    /\ books.k = "array"
    /\ books.items # <<>>

DeleteRequests(bag) == CopiesIn(Flow("delete", "request"), bag)

C13_TitleAuthorNonEmpty ==
    \A r \in table : ~MissingOrEmpty(r.title) /\ ~MissingOrEmpty(r.author)

(***************************************************************************)
(* Claims about concurrent requests for one row.                           *)
(***************************************************************************)
\* The update of a stored id that storage accepts.
AcceptedUpdate(id, body) ==
    /\ SelectById(table, id) # {}
    /\ UpdateError(table, id, ColumnValues(body)) = "ok"
    /\ PutBooks(id, body)

\* C14: concurrent updates of one row are not detected and the last write
\* wins: an accepted UPDATE leaves the row with exactly its own fields,
\* whatever other handlers for that id are suspended; every update handler
\* that reaches its answer answers 200; and a stored row's fields change in
\* no other step.
C14_LastWriteWins ==
    [][/\ \A id \in Ids, body \in Bodies :
              AcceptedUpdate(id, body)
              => /\ SelectById(table', id) # {}
                 /\ \A r \in SelectById(table', id) : RowValues(r) = ColumnValues(body)
                 /\ CopiesIn(Suspended("putSelect", id, body), handlers')
                        = CopiesIn(Suspended("putSelect", id, body), handlers) + 1
       /\ \A h \in BagToSet(handlers) :
              PutSelect(h) => resp'.op = "PUT" /\ resp'.id = h.id /\ resp'.status = 200
       /\ \A id \in Ids :
              (\E r \in SelectById(table, id), q \in SelectById(table', id) :
                   RowValues(r) # RowValues(q))
              => \E body \in Bodies : AcceptedUpdate(id, body)]_vars

\* Two updates of one row with different fields have both run their UPDATE,
\* neither has answered yet, and the row holds the fields of one of them.
C14_Witness ==
    \E h, g \in BagToSet(handlers) :
        /\ h.pc = "putSelect" /\ g.pc = "putSelect"
        /\ h.id = g.id
        /\ ColumnValues(h.body) # ColumnValues(g.body)
        /\ \E r \in SelectById(table, h.id) : RowValues(r) = ColumnValues(g.body)

\* C15: every 200 answer to an update holds a record of the requested id
\* whose mutable fields are those the request submitted.
C15_UpdateAnswersOwnRecord ==
    [][\A h \in BagToSet(handlers) :
          (PutSelect(h) /\ resp'.status = 200)
          => /\ resp'.body.k = "book"
             /\ resp'.body.row.id = h.id
             /\ RowValues(resp'.body.row) = ColumnValues(h.body)]_vars

\* With no other request for the id between a handler's UPDATE and its
\* SELECT, the answer does hold the record as submitted.
UpdateAnswersOwnRecordAlone ==
    [][\A h \in BagToSet(handlers) :
          (/\ PutSelect(h)
           /\ \E r \in SelectById(table, h.id) : RowValues(r) = ColumnValues(h.body))
          => /\ resp'.status = 200
             /\ resp'.body.k = "book"
             /\ resp'.body.row.id = h.id
             /\ RowValues(resp'.body.row) = ColumnValues(h.body)]_vars

\* C17: after the list refetch that ends a create, edit or delete flow has
\* succeeded while the search field holds text or a status is selected,
\* filteredBooks is the books of the new `books` that match the search text
\* and the selected status.
C17_RefetchKeepsFilters ==
    [][\A f \in BagToSet(flows), list \in ServerLists :
          (/\ f.kind # "load"
           /\ searchInput # <<>> \/ filterStatus # <<>>
           /\ BooksFetchSettled(f, "ok", list))
          => filteredBooks' = ExpectedShown(books', searchInput, filterStatus)]_vars

\* What the refetch does leave: filteredBooks is the whole of the new list.
RefetchShowsWholeList ==
    [][\A f \in BagToSet(flows), list \in ServerLists :
          BooksFetchSettled(f, "ok", list)
          => /\ books' = ArrayJson(list)
             /\ filteredBooks' = list
             /\ UNCHANGED <<searchInput, filterStatus>>]_vars

\* C16: once every request of the client has completed, with its list
\* fetches answered in any order and no one else changing the table, `books`
\* is the list of the table's rows as the router lists them.
C16_BooksEqualServerList ==
    (Started /\ flows = EmptyBag)
        => /\ books.k = "array"
           /\ books.items \in OrderedByCreatedDesc(table)

====
